---- MODULE Spec2Model ----
(***************************************************************************)
(* json-stream-builder: a tree of Builders, each owning a PassThrough      *)
(* stream, a queue of child Builders and the child currently piped into    *)
(* its stream.  Nodes live in an arena (sequences indexed by node id);     *)
(* node 1 is the builder returned by createBuilder().                      *)
(***************************************************************************)
EXTENDS Integers, Sequences, FiniteSets, TLC

\* ------------------------------------------------------------------ bounds
\* nodes the arena can hold
MaxNodes == 6
\* nodes the arena can hold when streams may be destroyed
MaxErrNodes == 5
\* streams the consumer may destroy with an error
MaxErrors == 1
\* nodes the arena can hold when the caller only nests arrays
MaxNestNodes == 10
\* nodes the arena can hold when the caller fills one array
MaxQueueNodes == 7

\* ------------------------------------------------------------- JSON values
\* A JS string is a sequence of characters.
KeyA == <<"a">>
KeyQ == <<"q", "\"">>
Keys == {KeyA, KeyQ}

Num1 == [type |-> "number", n |-> 1]
Arr1 == [type |-> "array", items |-> <<Num1>>]
ObjA == [type |-> "object", props |-> << <<KeyA, Num1>> >>]
ObjQ == [type |-> "object", props |-> << <<KeyQ, Num1>> >>]
\* a structure that refers to itself: JSON.stringify throws a TypeError
Circular == [type |-> "circular"]

Primitives == {Num1}
InlineValues == {Num1, Circular}
ObjectDatas == {ObjA, ObjQ, Circular}
ArrayDatas == {Arr1, Circular}

RECURSIVE Throws(_)
Throws(v) ==
    CASE v.type = "circular" -> TRUE
      [] v.type = "array" -> \E i \in 1..Len(v.items) : Throws(v.items[i])
      [] v.type = "object" -> \E i \in 1..Len(v.props) : Throws(v.props[i][2])
      [] OTHER -> FALSE

EscapeChar(c) ==
    IF c = "\"" THEN "\\\"" ELSE IF c = "\\" THEN "\\\\" ELSE c

RECURSIVE Raw(_)
Raw(s) == IF s = <<>> THEN "" ELSE Head(s) \o Raw(Tail(s))

RECURSIVE Escaped(_)
Escaped(s) == IF s = <<>> THEN "" ELSE EscapeChar(Head(s)) \o Escaped(Tail(s))

\* JSON.stringify of a string
Quote(s) == "\"" \o Escaped(s) \o "\""

\* the template literal `"${key}":`
KeyTemplate(key) == "\"" \o Raw(key) \o "\":"

\* the text of a fragment is a sequence of tokens
RECURSIVE Stringify(_)
RECURSIVE StringifyItems(_)
RECURSIVE StringifyProps(_)
Stringify(v) ==
    CASE v.type = "null" -> <<"null">>
      [] v.type = "number" -> <<ToString(v.n)>>
      [] v.type = "string" -> <<Quote(v.s)>>
      [] v.type = "array" -> <<"[">> \o StringifyItems(v.items) \o <<"]">>
      [] v.type = "object" -> <<"{">> \o StringifyProps(v.props) \o <<"}">>

StringifyItems(items) ==
    IF items = <<>> THEN <<>>
    ELSE Stringify(Head(items))
         \o (IF Tail(items) = <<>> THEN <<>> ELSE <<",">> \o StringifyItems(Tail(items)))

StringifyProps(props) ==
    IF props = <<>> THEN <<>>
    ELSE <<Quote(Head(props)[1]) \o ":">> \o Stringify(Head(props)[2])
         \o (IF Tail(props) = <<>> THEN <<>> ELSE <<",">> \o StringifyProps(Tail(props)))

\* ---------------------------------------------------------------- JSON.parse
Scalars == {"null", "true", "false"} \cup {ToString(i) : i \in 0..9}
KeyTokens == {Quote(k) \o ":" : k \in Keys}

RECURSIVE ParseValue(_, _)
RECURSIVE ParseItems(_, _)
RECURSIVE ParseMembers(_, _)
\* index after the value that starts at t[i], 0 when there is none
ParseValue(t, i) ==
    IF i > Len(t) THEN 0
    ELSE IF t[i] \in Scalars THEN i + 1
    ELSE IF t[i] = "[" THEN
        IF i + 1 <= Len(t) /\ t[i + 1] = "]" THEN i + 2 ELSE ParseItems(t, i + 1)
    ELSE IF t[i] = "{" THEN
        IF i + 1 <= Len(t) /\ t[i + 1] = "}" THEN i + 2 ELSE ParseMembers(t, i + 1)
    ELSE 0

ParseItems(t, i) ==
    LET j == ParseValue(t, i)
    IN  IF j = 0 \/ j > Len(t) THEN 0
        ELSE IF t[j] = "]" THEN j + 1
        ELSE IF t[j] = "," THEN ParseItems(t, j + 1)
        ELSE 0

ParseMembers(t, i) ==
    IF i > Len(t) \/ t[i] \notin KeyTokens THEN 0
    ELSE LET j == ParseValue(t, i + 1)
         IN  IF j = 0 \/ j > Len(t) THEN 0
             ELSE IF t[j] = "}" THEN j + 1
             ELSE IF t[j] = "," THEN ParseMembers(t, j + 1)
             ELSE 0

\* JSON.parse accepts the text
ValidJson(t) == ParseValue(t, 1) = Len(t) + 1

\* JSON.parse: the value a text stands for
NoParse == [ok |-> FALSE]
RECURSIVE ParseAt(_, _)
RECURSIVE ParseItemsAt(_, _, _)
RECURSIVE ParseMembersAt(_, _, _)
ParseAt(t, i) ==
    IF i > Len(t) THEN NoParse
    ELSE IF t[i] \in {ToString(k) : k \in 0..9} THEN
        [ok |-> TRUE, next |-> i + 1,
         v |-> [type |-> "number", n |-> CHOOSE k \in 0..9 : ToString(k) = t[i]]]
    ELSE IF t[i] = "[" THEN
        IF i + 1 <= Len(t) /\ t[i + 1] = "]"
        THEN [ok |-> TRUE, next |-> i + 2, v |-> [type |-> "array", items |-> <<>>]]
        ELSE ParseItemsAt(t, i + 1, <<>>)
    ELSE IF t[i] = "{" THEN
        IF i + 1 <= Len(t) /\ t[i + 1] = "}"
        THEN [ok |-> TRUE, next |-> i + 2, v |-> [type |-> "object", props |-> <<>>]]
        ELSE ParseMembersAt(t, i + 1, <<>>)
    ELSE NoParse

ParseItemsAt(t, i, acc) ==
    LET r == ParseAt(t, i)
    IN  IF ~r.ok \/ r.next > Len(t) THEN NoParse
        ELSE IF t[r.next] = "]" THEN
            [ok |-> TRUE, next |-> r.next + 1,
             v |-> [type |-> "array", items |-> Append(acc, r.v)]]
        ELSE IF t[r.next] = "," THEN ParseItemsAt(t, r.next + 1, Append(acc, r.v))
        ELSE NoParse

ParseMembersAt(t, i, acc) ==
    IF i > Len(t) \/ t[i] \notin KeyTokens THEN NoParse
    ELSE LET key == CHOOSE k \in Keys : Quote(k) \o ":" = t[i]
             r == ParseAt(t, i + 1)
         IN  IF ~r.ok \/ r.next > Len(t) THEN NoParse
             ELSE IF t[r.next] = "}" THEN
                 [ok |-> TRUE, next |-> r.next + 1,
                  v |-> [type |-> "object", props |-> Append(acc, <<key, r.v>>)]]
             ELSE IF t[r.next] = "," THEN
                 ParseMembersAt(t, r.next + 1, Append(acc, <<key, r.v>>))
             ELSE NoParse

JsonParse(t) ==
    LET r == ParseAt(t, 1)
    IN  IF r.ok /\ r.next = Len(t) + 1 THEN r.v ELSE NoParse

\* ------------------------------------------------------------------- state
VARIABLES
    kind,          \* class of each node: "json", "object", "array", "value"
    parent,        \* Builder.parent (None for null)
    queue,         \* Builder.queue
    current,       \* Builder.current (None for null)
    endScheduled,  \* Builder.endScheduled
    firstInserted, \* firstPropertyInserted / firstItemInserted
    payload,       \* the text a ValueStreamBuilder pushed into its stream
    written,       \* chunks written to the node's stream so far (by origin)
    rd,            \* number of chunks the consumer of the stream has read
    ended,         \* stream.end() / push(null) was called
    errored,       \* the stream was destroyed with an error
    accepted,      \* every child addChildBuilder pushed on the queue, in push order
    threw          \* the last public call raised an exception

vars == <<kind, parent, queue, current, endScheduled, firstInserted, payload,
          written, rd, ended, errored, accepted, threw>>

None == 0
Root == 1

Nodes == 1..Len(kind)

Heap ==
    [kind |-> kind, parent |-> parent, queue |-> queue, current |-> current,
     endScheduled |-> endScheduled, firstInserted |-> firstInserted,
     payload |-> payload, written |-> written, rd |-> rd, ended |-> ended,
     errored |-> errored, accepted |-> accepted]

Commit(h) ==
    LET r == h
    IN  /\ kind' = r.kind
        /\ parent' = r.parent
        /\ queue' = r.queue
        /\ current' = r.current
        /\ endScheduled' = r.endScheduled
        /\ firstInserted' = r.firstInserted
        /\ payload' = r.payload
        /\ written' = r.written
        /\ rd' = r.rd
        /\ ended' = r.ended
        /\ errored' = r.errored
        /\ accepted' = r.accepted

\* chunks.join(''): the text of a sequence of chunks
RECURSIVE Join(_)
Join(cs) == IF cs = <<>> THEN <<>> ELSE payload[Head(cs)] \o Join(Tail(cs))

\* id of the node constructed last
Last(h) == Len(h.kind)

\* new Builder(parent): empty queue, no current child, end not scheduled
NewBuilder(h, k, par) ==
    [kind |-> Append(h.kind, k), parent |-> Append(h.parent, par),
     queue |-> Append(h.queue, <<>>), current |-> Append(h.current, None),
     endScheduled |-> Append(h.endScheduled, FALSE),
     firstInserted |-> Append(h.firstInserted, FALSE),
     payload |-> Append(h.payload, <<>>), written |-> Append(h.written, <<>>),
     rd |-> Append(h.rd, 0), ended |-> Append(h.ended, FALSE),
     errored |-> Append(h.errored, FALSE), accepted |-> Append(h.accepted, <<>>)]

\* a node nothing refers to any more is reclaimed
Front(s) == SubSeq(s, 1, Len(s) - 1)
Release(h) ==
    [kind |-> Front(h.kind), parent |-> Front(h.parent), queue |-> Front(h.queue),
     current |-> Front(h.current), endScheduled |-> Front(h.endScheduled),
     firstInserted |-> Front(h.firstInserted), payload |-> Front(h.payload),
     written |-> Front(h.written), rd |-> Front(h.rd), ended |-> Front(h.ended),
     errored |-> Front(h.errored), accepted |-> Front(h.accepted)]

InQueue(h, n, c) == \E i \in 1..Len(h.queue[n]) : h.queue[n][i] = c

\* this.stream.end(): a stream that was destroyed with an error does not end
StreamEnd(h, n) ==
    IF h.errored[n] THEN h ELSE [h EXCEPT !.ended[n] = TRUE]

\* consumeChildBuilder reading the head of the queue without removing it
ConsumeChildBuilderPeek(h, n) ==
    IF h.current[n] # None THEN h
    ELSE IF h.queue[n] = <<>>
         THEN IF h.endScheduled[n] THEN StreamEnd(h, n) ELSE h
         ELSE [h EXCEPT !.current[n] = Head(h.queue[n])]

\* consumeChildBuilder that starts on the queue only once the end is scheduled
ConsumeChildBuilderAfterEnd(h, n) ==
    IF h.current[n] # None \/ ~h.endScheduled[n] THEN h
    ELSE IF h.queue[n] = <<>> THEN StreamEnd(h, n)
         ELSE [h EXCEPT !.current[n] = Head(h.queue[n]),
                        !.queue[n] = Tail(h.queue[n])]

\* consumeChildBuilder ending the stream as soon as the queue is empty
ConsumeChildBuilderEndOnEmpty(h, n) ==
    IF h.current[n] # None THEN h
    ELSE IF h.queue[n] = <<>> THEN StreamEnd(h, n)
         ELSE [h EXCEPT !.current[n] = Head(h.queue[n]),
                        !.queue[n] = Tail(h.queue[n])]

\* consumeChildBuilder without the `if (this.current) return` guard
ConsumeChildBuilderNoCurrentGuard(h, n) ==
    IF h.queue[n] = <<>>
    THEN IF h.endScheduled[n] /\ h.current[n] = None THEN StreamEnd(h, n) ELSE h
    ELSE [h EXCEPT !.current[n] = Head(h.queue[n]),
                   !.queue[n] = Tail(h.queue[n])]

\* consumeChildBuilder taking the child pushed last (queue.pop())
ConsumeChildBuilderLifo(h, n) ==
    IF h.current[n] # None THEN h
    ELSE IF h.queue[n] = <<>>
         THEN IF h.endScheduled[n] THEN StreamEnd(h, n) ELSE h
         ELSE [h EXCEPT !.current[n] = h.queue[n][Len(h.queue[n])],
                        !.queue[n] = Front(h.queue[n])]

\* Builder.consumeChildBuilder
ConsumeChildBuilder(h, n) ==
    IF h.current[n] # None THEN h
    ELSE IF h.queue[n] = <<>>
         THEN IF h.endScheduled[n] THEN StreamEnd(h, n) ELSE h
         ELSE [h EXCEPT !.current[n] = Head(h.queue[n]),
                        !.queue[n] = Tail(h.queue[n])]

\* addChildBuilder without the endScheduled check
AddChildBuilderNoGuard(h, n, child) ==
    ConsumeChildBuilder([h EXCEPT !.queue[n] = Append(@, child),
                                  !.accepted[n] = Append(@, child)], n)

\* addChildBuilder refusing children only once the stream has ended
AddChildBuilderUntilClosed(h, n, child) ==
    IF h.ended[n] THEN h
    ELSE ConsumeChildBuilder([h EXCEPT !.queue[n] = Append(@, child),
                                       !.accepted[n] = Append(@, child)], n)

\* Builder.addChildBuilder
AddChildBuilder(h, n, child) ==
    IF h.endScheduled[n] THEN h
    ELSE ConsumeChildBuilder([h EXCEPT !.queue[n] = Append(@, child),
                                       !.accepted[n] = Append(@, child)], n)

\* scheduleEnd ending the stream at once, whatever is queued or current
ScheduleEndNow(h, n) == StreamEnd([h EXCEPT !.endScheduled[n] = TRUE], n)

\* scheduleEnd setting the flag without running the consumption step
ScheduleEndNoConsume(h, n) == [h EXCEPT !.endScheduled[n] = TRUE]

\* Builder.scheduleEnd
ScheduleEnd(h, n) ==
    ConsumeChildBuilder([h EXCEPT !.endScheduled[n] = TRUE], n)

\* rawValue pushing the data without the closing push(null)
RawValueOpen(h, par, data) ==
    LET g == NewBuilder(h, "value", par)
        id == Last(g)
    IN  [g EXCEPT !.payload[id] = data, !.written[id] = <<id>>]

\* new ValueStreamBuilder(par).rawValue(data)
RawValue(h, par, data) ==
    LET g == NewBuilder(h, "value", par)
        id == Last(g)
    IN  [g EXCEPT !.payload[id] = data, !.written[id] = <<id>>, !.ended[id] = TRUE]

\* this.addChildBuilder(new ValueStreamBuilder(par).rawValue(data)); the
\* fragment is kept only if the queue took it
AddFragment(h, n, par, data) ==
    LET g == RawValue(h, par, data)
        r == AddChildBuilder(g, n, Last(g))
    IN  IF r.current[n] = Last(g) \/ InQueue(r, n, Last(g)) THEN r ELSE Release(r)

Init ==
    /\ kind = <<"json">>
    /\ parent = <<None>>
    /\ queue = << <<>> >>
    /\ current = <<None>>
    /\ endScheduled = <<FALSE>>
    /\ firstInserted = <<FALSE>>
    /\ payload = << <<>> >>
    /\ written = << <<>> >>
    /\ rd = <<0>>
    /\ ended = <<FALSE>>
    /\ errored = <<FALSE>>
    /\ accepted = << <<>> >>
    /\ threw = FALSE

\* value() queueing the fragment without scheduling the builder's end
JsonValueNoEnd(h, n, data) == AddFragment(h, n, h.parent[n], Stringify(data))

\* JsonStreamBuilder.value
JsonValue(h, n, data) ==
    ScheduleEnd(AddFragment(h, n, h.parent[n], Stringify(data)), n)

\* JsonStreamBuilder.primitive: this.value(data).end()
DoPrimitive(h, n, data) == ScheduleEnd(JsonValue(h, n, data), n)

\* JsonStreamBuilder.object(data) / array(data): `if (data) return this.value(data)`;
\* JSON.stringify throws before anything is queued
DoJsonData(h, n, data) == IF Throws(data) THEN h ELSE JsonValue(h, n, data)

\* new ObjectStreamBuilder(par) / new ArrayStreamBuilder(par): the constructor
\* queues the opening delimiter
NewAggregate(h, k, par) ==
    LET g == NewBuilder(h, k, par)
    IN  AddFragment(g, Last(g), Last(g), <<IF k = "object" THEN "{" ELSE "[">>)

\* object() / array() queueing the new aggregate without scheduling the end
DoJsonOpenNoEnd(h, n, k) ==
    LET g == NewAggregate(h, k, h.parent[n])
        builder == Last(h) + 1
    IN  AddChildBuilder(g, n, builder)

\* object() / array() handing the new aggregate the dispatch builder as parent
DoJsonOpenUnderSlot(h, n, k) ==
    LET g == NewAggregate(h, k, n)
        builder == Last(h) + 1
    IN  ScheduleEnd(AddChildBuilder(g, n, builder), n)

\* JsonStreamBuilder.object() / array() without data
DoJsonOpen(h, n, k) ==
    LET g == NewAggregate(h, k, h.parent[n])
        builder == Last(h) + 1
    IN  ScheduleEnd(AddChildBuilder(g, n, builder), n)

\* end() scheduling the end of the parent as well
DoJsonEndWithParent(h, n) ==
    IF h.parent[n] = None THEN ScheduleEnd(h, n)
    ELSE ScheduleEnd(ScheduleEnd(h, n), h.parent[n])

\* JsonStreamBuilder.end
DoJsonEnd(h, n) == ScheduleEnd(h, n)

\* ObjectStreamBuilder.insertCommaIfNeeded / ArrayStreamBuilder.insertCommaIfNeeded
InsertCommaIfNeeded(h, n) ==
    IF ~h.firstInserted[n]
    THEN [h EXCEPT !.firstInserted[n] = TRUE]
    ELSE AddFragment(h, n, n, <<",">>)

\* ObjectStreamBuilder.addProperty(key)
DoAddPropertyOpen(h, n, key) ==
    LET g == NewBuilder(h, "json", n)
        builder == Last(g)
        c == InsertCommaIfNeeded(g, n)
        k == AddFragment(c, n, n, <<KeyTemplate(key)>>)
    IN  AddChildBuilder(k, n, builder)

\* ObjectStreamBuilder.pushProperty: the comma is handled before the value is
\* serialized
DoPushProperty(h, n, key, value) ==
    LET c == InsertCommaIfNeeded(h, n)
    IN  IF Throws(value) THEN c
        ELSE AddFragment(c, n, n, <<KeyTemplate(key)>> \o Stringify(value))

\* addItem() queueing the new builder before the separator
DoAddItemOpenSlotFirst(h, n) ==
    LET g == NewBuilder(h, "json", n)
        builder == Last(g)
    IN  InsertCommaIfNeeded(AddChildBuilder(g, n, builder), n)

\* ArrayStreamBuilder.addItem()
DoAddItemOpen(h, n) ==
    LET g == NewBuilder(h, "json", n)
        builder == Last(g)
        c == InsertCommaIfNeeded(g, n)
    IN  AddChildBuilder(c, n, builder)

\* ArrayStreamBuilder.pushItem
DoPushItem(h, n, value) ==
    LET c == InsertCommaIfNeeded(h, n)
    IN  IF Throws(value) THEN c ELSE AddFragment(c, n, n, Stringify(value))

\* end() scheduling the end without queueing the closing delimiter
DoAggregateEndNoDelimiter(h, n) == ScheduleEnd(h, n)

\* ObjectStreamBuilder.end / ArrayStreamBuilder.end
DoAggregateEnd(h, n) ==
    ScheduleEnd(AddFragment(h, n, n, <<IF h.kind[n] = "object" THEN "}" ELSE "]">>), n)

\* a public call: the method, the builder it is called on and its arguments
NoKey == <<>>
NoValue == [type |-> "undefined"]
CallOf(op, n, key, value) == [op |-> op, n |-> n, key |-> key, value |-> value]

JsonOps == {"primitive", "objectData", "arrayData", "object", "array", "jsonEnd"}
ObjectOps == {"addProperty", "pushProperty", "objectEnd"}
ArrayOps == {"addItem", "pushItem", "arrayEnd"}

\* the class that has the method
KindOf(op) ==
    IF op \in JsonOps THEN "json" ELSE IF op \in ObjectOps THEN "object" ELSE "array"

\* builders the call constructs at most
Constructs(op) ==
    CASE op \in {"primitive", "objectData", "arrayData", "objectEnd", "arrayEnd"} -> 1
      [] op \in {"object", "array", "pushProperty", "pushItem", "addItem"} -> 2
      [] op = "addProperty" -> 3
      [] OTHER -> 0

\* the call raises
Raises(c) ==
    c.op \in {"objectData", "arrayData", "pushProperty", "pushItem"} /\ Throws(c.value)

\* the heap after the call
Apply(h, c) ==
    CASE c.op = "primitive" -> DoPrimitive(h, c.n, c.value)
      [] c.op \in {"objectData", "arrayData"} -> DoJsonData(h, c.n, c.value)
      [] c.op = "object" -> DoJsonOpen(h, c.n, "object")
      [] c.op = "array" -> DoJsonOpen(h, c.n, "array")
      [] c.op = "jsonEnd" -> DoJsonEnd(h, c.n)
      [] c.op = "addProperty" -> DoAddPropertyOpen(h, c.n, c.key)
      [] c.op = "pushProperty" -> DoPushProperty(h, c.n, c.key, c.value)
      [] c.op = "addItem" -> DoAddItemOpen(h, c.n)
      [] c.op = "pushItem" -> DoPushItem(h, c.n, c.value)
      [] c.op \in {"objectEnd", "arrayEnd"} -> DoAggregateEnd(h, c.n)

\* primitive() returning the builder itself, as object(data) does
ReturnsThisForPrimitive(h, c) ==
    CASE c.op \in {"jsonEnd", "objectEnd", "arrayEnd"} -> h.parent[c.n]
      [] c.op \in {"primitive", "objectData", "arrayData", "pushProperty", "pushItem"} -> c.n
      [] c.op \in {"object", "array", "addProperty", "addItem"} -> Last(h) + 1

\* the builder the call returns (None for null)
Returns(h, c) ==
    CASE c.op \in {"primitive", "jsonEnd", "objectEnd", "arrayEnd"} -> h.parent[c.n]
      [] c.op \in {"objectData", "arrayData", "pushProperty", "pushItem"} -> c.n
      [] c.op \in {"object", "array", "addProperty", "addItem"} -> Last(h) + 1

\* room in the arena for k more nodes
RoomIn(h, k) == Last(h) + k <= MaxNodes

\* a call that has to wait until the builder is piping no child
CanCallWhenIdle(h, c) ==
    /\ c.n \in 1..Last(h)
    /\ h.kind[c.n] = KindOf(c.op)
    /\ RoomIn(h, Constructs(c.op))
    /\ h.current[c.n] = None

\* the caller holds a builder of the method's class
CanCall(h, c) ==
    /\ c.n \in 1..Last(h)
    /\ h.kind[c.n] = KindOf(c.op)
    /\ RoomIn(h, Constructs(c.op))

Perform(c) ==
    /\ CanCall(Heap, c)
    /\ Commit(Apply(Heap, c))
    /\ threw' = Raises(c)

Primitive(n, data) == Perform(CallOf("primitive", n, NoKey, data))

ObjectData(n, data) == Perform(CallOf("objectData", n, NoKey, data))

ArrayData(n, data) == Perform(CallOf("arrayData", n, NoKey, data))

ObjectOpen(n) == Perform(CallOf("object", n, NoKey, NoValue))

ArrayOpen(n) == Perform(CallOf("array", n, NoKey, NoValue))

JsonEnd(n) == Perform(CallOf("jsonEnd", n, NoKey, NoValue))

AddPropertyOpen(n, key) == Perform(CallOf("addProperty", n, key, NoValue))

AddPropertyInline(n, key, value) == Perform(CallOf("pushProperty", n, key, value))

ObjectEnd(n) == Perform(CallOf("objectEnd", n, NoKey, NoValue))

AddItemOpen(n) == Perform(CallOf("addItem", n, NoKey, NoValue))

AddItemInline(n, value) == Perform(CallOf("pushItem", n, NoKey, value))

ArrayEnd(n) == Perform(CallOf("arrayEnd", n, NoKey, NoValue))

\* this.current.asStream().pipe(this.stream, { end: false }): a chunk of the
\* current child is waiting to be written to this node's stream
CanPipe(h, n) ==
    /\ h.current[n] # None
    /\ ~h.errored[n] /\ ~h.errored[h.current[n]]
    /\ h.rd[h.current[n]] < Len(h.written[h.current[n]])

DoPipe(h, n) ==
    LET c == h.current[n]
    IN  [h EXCEPT !.written[n] = Append(@, h.written[c][h.rd[c] + 1]),
                  !.rd[c] = @ + 1]

Pipe(n) ==
    /\ CanPipe(Heap, n)
    /\ Commit(DoPipe(Heap, n))
    /\ UNCHANGED threw

\* this.current.asStream().on('end', ...): the current child has ended and all
\* of its chunks were read
CanChildEnd(h, n) ==
    /\ h.current[n] # None
    /\ ~h.errored[h.current[n]]
    /\ h.ended[h.current[n]]
    /\ h.rd[h.current[n]] = Len(h.written[h.current[n]])

\* the 'end' callback clearing current without consuming the next child
DoChildEndNoRerun(h, n) == [h EXCEPT !.current[n] = None]

DoChildEnd(h, n) == ConsumeChildBuilder([h EXCEPT !.current[n] = None], n)

OnChildEnd(n) ==
    /\ CanChildEnd(Heap, n)
    /\ Commit(DoChildEnd(Heap, n))
    /\ UNCHANGED threw

\* asStream().destroy(err) by the holder of a builder
StreamError(n) ==
    /\ kind[n] # "value"
    /\ ~errored[n]
    /\ Cardinality({m \in Nodes : errored[m]}) < MaxErrors
    /\ errored' = [errored EXCEPT ![n] = TRUE]
    /\ UNCHANGED <<kind, parent, queue, current, endScheduled, firstInserted,
                   payload, written, rd, ended, accepted, threw>>

Call ==
    \/ \E n \in Nodes, v \in Primitives : Primitive(n, v)
    \/ \E n \in Nodes, v \in ObjectDatas : ObjectData(n, v)
    \/ \E n \in Nodes, v \in ArrayDatas : ArrayData(n, v)
    \/ \E n \in Nodes : ObjectOpen(n)
    \/ \E n \in Nodes : ArrayOpen(n)
    \/ \E n \in Nodes : JsonEnd(n)
    \/ \E n \in Nodes, k \in Keys : AddPropertyOpen(n, k)
    \/ \E n \in Nodes, k \in Keys, v \in InlineValues : AddPropertyInline(n, k, v)
    \/ \E n \in Nodes : ObjectEnd(n)
    \/ \E n \in Nodes : AddItemOpen(n)
    \/ \E n \in Nodes, v \in InlineValues : AddItemInline(n, v)
    \/ \E n \in Nodes : ArrayEnd(n)

Event ==
    \/ \E n \in Nodes : Pipe(n)
    \/ \E n \in Nodes : OnChildEnd(n)

Next == Call \/ Event

Spec == Init /\ [][Next]_vars

\* the event loop delivers every pending stream event
FairSpec == Spec /\ WF_vars(Event)

\* the same program with a consumer that may destroy a stream
ErrNext == (Next \/ \E n \in Nodes : StreamError(n)) /\ Len(kind') <= MaxErrNodes

SpecErr == Init /\ [][ErrNext]_vars

\* addItems(seq) applying the inline form from the last entry to the first
RECURSIVE DoAddItemsBackwards(_, _, _)
DoAddItemsBackwards(h, n, items) ==
    IF items = <<>> THEN h
    ELSE DoPushItem(DoAddItemsBackwards(h, n, Tail(items)), n, Head(items))

\* addItems(seq): the inline addItem(value) once per entry, in order
RECURSIVE DoAddItems(_, _, _)
DoAddItems(h, n, items) ==
    IF items = <<>> THEN h
    ELSE DoAddItems(DoPushItem(h, n, Head(items)), n, Tail(items))

\* addProperties(map): the inline addProperty(key, value) once per entry, in order
RECURSIVE DoAddProperties(_, _, _)
DoAddProperties(h, n, props) ==
    IF props = <<>> THEN h
    ELSE DoAddProperties(DoPushProperty(h, n, Head(props)[1], Head(props)[2]), n,
                         Tail(props))

\* the sequences and maps (as entry lists) passed to the bulk forms
ItemLists == {<<>>, <<Arr1>>, <<Num1, Arr1>>}
PropertyMaps == {<<>>, << <<KeyA, Arr1>> >>, << <<KeyA, Num1>>, <<KeyQ, Arr1>> >>}

AddItems(n, items) ==
    /\ kind[n] = "array"
    /\ Last(DoAddItems(Heap, n, items)) <= MaxNodes
    /\ Commit(DoAddItems(Heap, n, items))
    /\ threw' = FALSE

AddProperties(n, props) ==
    /\ kind[n] = "object"
    /\ Last(DoAddProperties(Heap, n, props)) <= MaxNodes
    /\ Commit(DoAddProperties(Heap, n, props))
    /\ threw' = FALSE

\* the same program with a caller that also uses the bulk forms
BulkNext ==
    \/ Next
    \/ \E n \in Nodes, items \in ItemLists : AddItems(n, items)
    \/ \E n \in Nodes, props \in PropertyMaps : AddProperties(n, props)

BulkSpec == Init /\ [][BulkNext]_vars

\* the same program driven by a caller that only nests open-ended arrays, in
\* an arena deep enough for an array inside a slot of an array
NestPerform(c) ==
    /\ c.n \in Nodes
    /\ kind[c.n] = KindOf(c.op)
    /\ Last(Heap) + Constructs(c.op) <= MaxNestNodes
    /\ Commit(Apply(Heap, c))
    /\ threw' = Raises(c)

NestNext ==
    \/ \E n \in Nodes : NestPerform(CallOf("array", n, NoKey, NoValue))
    \/ \E n \in Nodes : NestPerform(CallOf("addItem", n, NoKey, NoValue))
    \/ \E n \in Nodes : NestPerform(CallOf("arrayEnd", n, NoKey, NoValue))
    \/ Event

NestSpec == Init /\ [][NestNext]_vars

\* a caller that fills one array with slots and inline items while a consumer
\* reads
QueuePerform(c) ==
    /\ c.n \in Nodes
    /\ kind[c.n] = KindOf(c.op)
    /\ Last(Heap) + Constructs(c.op) <= MaxQueueNodes
    /\ Commit(Apply(Heap, c))
    /\ threw' = Raises(c)

QueueNext ==
    \/ QueuePerform(CallOf("array", Root, NoKey, NoValue))
    \/ \E n \in Nodes : QueuePerform(CallOf("addItem", n, NoKey, NoValue))
    \/ \E n \in Nodes, v \in Primitives : QueuePerform(CallOf("pushItem", n, NoKey, v))
    \/ \E n \in Nodes, v \in Primitives : QueuePerform(CallOf("primitive", n, NoKey, v))
    \/ \E n \in Nodes : QueuePerform(CallOf("arrayEnd", n, NoKey, NoValue))
    \/ Event

QueueSpec == Init /\ [][QueueNext]_vars

\* ------------------------------------------------------------ derived state
Aggregates == {n \in Nodes : kind[n] \in {"object", "array"}}
Builders == {n \in Nodes : kind[n] # "value"}

\* number of accepted children whose 'end' this node has already handled
Consumed(n) ==
    Len(accepted[n]) - Len(queue[n]) - (IF current[n] # None THEN 1 ELSE 0)

\* what the streams of a sequence of nodes have carried so far, concatenated
RECURSIVE ConcatWritten(_)
ConcatWritten(cs) ==
    IF cs = <<>> THEN <<>> ELSE written[Head(cs)] \o ConcatWritten(Tail(cs))

\* the text on a node's channel so far
Text(n) == Join(written[n])

\* the fragments a node's channel carries once everything it accepted so far
\* has been forwarded, in push order
RECURSIVE FragsIn(_, _)
RECURSIVE FragsOfIn(_, _)
FragsIn(h, n) == IF h.kind[n] = "value" THEN <<n>> ELSE FragsOfIn(h, h.accepted[n])

FragsOfIn(h, cs) ==
    IF cs = <<>> THEN <<>> ELSE FragsIn(h, Head(cs)) \o FragsOfIn(h, Tail(cs))

RECURSIVE JoinIn(_, _)
JoinIn(h, cs) == IF cs = <<>> THEN <<>> ELSE h.payload[Head(cs)] \o JoinIn(h, Tail(cs))

DocIn(h, n) == JoinIn(h, FragsIn(h, n))

Frags(n) == FragsIn(Heap, n)
Doc(n) == DocIn(Heap, n)

\* the nodes of the document: everything pushed, directly or not, under n
RECURSIVE Attached(_)
Attached(n) ==
    {n} \cup UNION {Attached(accepted[n][i]) : i \in 1..Len(accepted[n])}

\* fragment f lies under n and every child before it, at every level, has ended
RECURSIVE ReadyIn(_, _)
ReadyIn(n, f) ==
    \E i \in 1..Len(accepted[n]) :
        /\ \/ accepted[n][i] = f
           \/ kind[accepted[n][i]] # "value" /\ ReadyIn(accepted[n][i], f)
        /\ \A j \in 1..(i - 1) : ended[accepted[n][j]]

Occurrences(cs, f) == Cardinality({i \in 1..Len(cs) : cs[i] = f})

\* the public calls a caller can make on builder n in heap h
CallsOn(h, n) ==
    LET all ==
            CASE h.kind[n] = "json" ->
                    {CallOf("primitive", n, NoKey, v) : v \in Primitives}
                    \cup {CallOf("objectData", n, NoKey, v) : v \in ObjectDatas}
                    \cup {CallOf("arrayData", n, NoKey, v) : v \in ArrayDatas}
                    \cup {CallOf(op, n, NoKey, NoValue) : op \in {"object", "array", "jsonEnd"}}
              [] h.kind[n] = "object" ->
                    {CallOf("addProperty", n, k, NoValue) : k \in Keys}
                    \cup {CallOf("pushProperty", n, k, v) : k \in Keys, v \in InlineValues}
                    \cup {CallOf("objectEnd", n, NoKey, NoValue)}
              [] h.kind[n] = "array" ->
                    {CallOf("pushItem", n, NoKey, v) : v \in InlineValues}
                    \cup {CallOf(op, n, NoKey, NoValue) : op \in {"addItem", "arrayEnd"}}
              [] OTHER -> {}
    IN  {c \in all : RoomIn(h, Constructs(c.op))}

\* the public calls a caller can make in heap h
CallsIn(h) == UNION {CallsOn(h, n) : n \in 1..Last(h)}

\* the stream events that are pending in heap h
EventOf(ev, n) == [ev |-> ev, n |-> n]
EventsIn(h) ==
    {EventOf("pipe", n) : n \in {m \in 1..Last(h) : CanPipe(h, m)}}
    \cup {EventOf("end", n) : n \in {m \in 1..Last(h) : CanChildEnd(h, m)}}

Deliver(h, e) == IF e.ev = "pipe" THEN DoPipe(h, e.n) ELSE DoChildEnd(h, e.n)

\* what a caller or a consumer can observe of the nodes of h in heap g
SameOn(h, a, b) ==
    \A n \in 1..Last(h) :
        /\ a.endScheduled[n] = b.endScheduled[n]
        /\ a.firstInserted[n] = b.firstInserted[n]
        /\ a.ended[n] = b.ended[n]
        /\ a.written[n] = b.written[n]
        /\ DocIn(a, n) = DocIn(b, n)

\* ------------------------------------------------------------------ claims

\* C1: FIFO output. For every node in every reachable state the chunks emitted
\* on its channel are the complete outputs of the children it accepted first,
\* in push order, followed by what was read so far from the current child;
\* nothing of a child that is still queued has been emitted.
FifoOutput ==
    \A n \in Builders :
        LET k == Consumed(n)
        IN  /\ k >= 0
            /\ queue[n] = SubSeq(accepted[n], Len(accepted[n]) - Len(queue[n]) + 1,
                                 Len(accepted[n]))
            /\ current[n] # None => accepted[n][k + 1] = current[n]
            /\ \A i \in 1..k : ended[accepted[n][i]]
            /\ \A i \in 1..Len(queue[n]) : rd[queue[n][i]] = 0
            /\ written[n] =
                 ConcatWritten(SubSeq(accepted[n], 1, k))
                 \o (IF current[n] # None
                     THEN SubSeq(written[current[n]], 1, rd[current[n]])
                     ELSE <<>>)

\* a member pushed after an open-ended slot was emitted after the slot's content
FifoWitness ==
    \E n \in Aggregates :
        \E i \in 1..Len(accepted[n]), j \in 1..Len(accepted[n]) :
            /\ i < j
            /\ kind[accepted[n][i]] = "json"
            /\ written[accepted[n][i]] # <<>>
            /\ i <= Consumed(n)
            /\ kind[accepted[n][j]] = "value"
            /\ rd[accepted[n][j]] = 1

\* C2: order-invariance. Two executions with the same calls on each node differ
\* by swaps of adjacent steps on different nodes; every such swap leaves the
\* outcome unchanged: a call and a pending stream event give the same heap in
\* either order, two pending events likewise, two calls on different nodes give
\* the same flags, streams and eventual text on every existing node; and when
\* the root channel closes its text is the text fixed by the pushes alone.
OrderInvariance ==
    /\ ended[Root] => Text(Root) = Doc(Root)
    /\ \A c \in CallsIn(Heap), e \in EventsIn(Heap) :
          /\ e \in EventsIn(Apply(Heap, c))
          /\ Deliver(Apply(Heap, c), e) = Apply(Deliver(Heap, e), c)
    /\ \A e1 \in EventsIn(Heap), e2 \in EventsIn(Heap) :
          e1 # e2 =>
              /\ e2 \in EventsIn(Deliver(Heap, e1))
              /\ Deliver(Deliver(Heap, e1), e2) = Deliver(Deliver(Heap, e2), e1)
    /\ \A c1 \in CallsIn(Heap), c2 \in CallsIn(Heap) :
          (c1.n < c2.n /\ RoomIn(Heap, Constructs(c1.op) + Constructs(c2.op))) =>
              SameOn(Heap, Apply(Apply(Heap, c1), c2), Apply(Apply(Heap, c2), c1))

\* the root closed with the content of a slot that was decided after a later
\* sibling or the closing delimiter had been pushed
OrderInvarianceWitness ==
    /\ ended[Root]
    /\ \E n \in Aggregates : \E i \in 1..Len(accepted[n]) :
          /\ kind[accepted[n][i]] = "json"
          /\ i < Len(accepted[n])
          /\ accepted[accepted[n][i]] # <<>>
          /\ accepted[accepted[n][i]][1] > accepted[n][Len(accepted[n])]

\* C3: eventual closure. Once end was requested on every builder of the
\* document (every aggregate ended, every slot decided), the root channel
\* eventually closes; and whenever it is closed it carries every fragment of the
\* document exactly once, in push order.
EventualClosure ==
    /\ (\A n \in Attached(Root) : kind[n] # "value" => endScheduled[n]) ~> ended[Root]
    /\ [](ended[Root] =>
            /\ written[Root] = Frags(Root)
            /\ \A f \in Attached(Root) :
                  kind[f] = "value" => Occurrences(written[Root], f) = 1)

\* the root closed on a document with a slot that was filled on its own
EventualClosureWitness ==
    /\ ended[Root]
    /\ \E n \in Attached(Root) :
          /\ kind[n] = "json"
          /\ parent[n] # None
          /\ accepted[n] # <<>>

\* what I2 asks of a node: end requested, nothing queued, no current child
Drained(n) == endScheduled[n] /\ queue[n] = <<>> /\ current[n] = None

\* C4 as stated: in every reachable state every node's channel is closed iff
\* its end is requested, its queue is empty and it has no current child.
ClosureIffOriginal == \A n \in Nodes : ended[n] <=> Drained(n)

\* C4 amended: the equivalence holds for every builder that has children (json,
\* object, array) and whose stream was not destroyed; a ValueStreamBuilder is
\* closed from its creation on although its end is never requested.
ClosureIff ==
    \A n \in Nodes :
        IF kind[n] = "value"
        THEN ended[n] /\ ~endScheduled[n] /\ queue[n] = <<>> /\ current[n] = None
        ELSE /\ ended[n] => Drained(n)
             /\ (Drained(n) /\ ~errored[n]) => ended[n]

\* one aggregate has closed while another builder, ended by its caller, is
\* still waiting for its children
ClosureIffWitness ==
    /\ \E n \in Aggregates : ended[n]
    /\ \E m \in Builders : endScheduled[m] /\ ~ended[m] /\ ~errored[m]

\* the step is the public call c
Performed(c) ==
    /\ threw' = Raises(c)
    /\ CanCall(Heap, c)
    /\ Heap' = Apply(Heap, c)

\* a call made on an aggregate whose end() was already called
PostEndCalls == UNION {CallsOn(Heap, n) : n \in {m \in Aggregates : endScheduled[m]}}

\* the step changes nothing that reaches a channel: the queue and the current
\* child of the node, and the pushes, the fragment text and the stream of every
\* node (Doc(m) is a function of the pushes and the fragment texts under m, so
\* the text every channel will have carried when it closes is unchanged)
Silent(n) ==
    /\ queue'[n] = queue[n]
    /\ current'[n] = current[n]
    /\ \A m \in Nodes :
          /\ accepted'[m] = accepted[m]
          /\ payload'[m] = payload[m]
          /\ written'[m] = written[m]
          /\ ended'[m] = ended[m]

\* C5: post-end appends are silent no-ops. After end() on an object or array,
\* any later addProperty, addItem (inline or not) or end() on it raises nothing,
\* leaves its queue unchanged and leaves the final text of the root unchanged.
PostEndSilentOriginal ==
    [][\A c \in PostEndCalls : Performed(c) => (~threw' /\ Silent(c.n))]_vars

\* a call made on a JsonStreamBuilder that was already decided
DecidedCalls ==
    UNION {CallsOn(Heap, n) : n \in {m \in Nodes : kind[m] = "json" /\ endScheduled[m]}}

\* a JsonStreamBuilder holds at most one child
AtMostOneChild == \A n \in Nodes : kind[n] = "json" => Len(accepted[n]) <= 1

\* C6: first decision wins. After the first primitive/object/array call on a
\* JsonStreamBuilder every later one enqueues nothing and raises nothing; the
\* builder accepts at most one child and the final text reflects the first call.
FirstDecisionWinsOriginal ==
    [][/\ AtMostOneChild /\ AtMostOneChild'
       /\ \A c \in DecidedCalls : Performed(c) => (~threw' /\ Silent(c.n))]_vars

\* C7: syntactic validity. Whenever the root channel has closed, its text is
\* valid JSON: delimiters balanced, one ',' between consecutive members, every
\* key followed by a non-empty value.
SyntacticValidity == ended[Root] => ValidJson(Text(Root))

\* fragment f is a member or separator of an aggregate, not its opening delimiter
IsMember(f) ==
    /\ kind[f] = "value"
    /\ parent[f] # None
    /\ kind[parent[f]] \in {"object", "array"}
    /\ accepted[parent[f]][1] # f

Carries(n, f) == \E i \in 1..Len(written[n]) : written[n][i] = f

\* C8: incremental delivery. A fragment under the root whose preceding siblings,
\* at every level, have closed eventually reaches the root channel, whether or
\* not end() is ever called on an enclosing aggregate.
IncrementalDelivery ==
    \A f \in 1..MaxNodes :
        (f \in Nodes /\ kind[f] = "value" /\ ReadyIn(Root, f)) ~> Carries(Root, f)

\* the root channel carries a member of an aggregate on which end() was not called
IncrementalDeliveryWitness ==
    \E f \in Nodes :
        /\ IsMember(f)
        /\ ~endScheduled[parent[f]]
        /\ Carries(Root, f)

\* the addProperty / addItem / end calls a caller can make on the aggregates
AggregateCalls == UNION {CallsOn(Heap, n) : n \in Aggregates}

\* ENABLED Perform(c): the guard of the call holds; the rest of Perform assigns
\* the next state
Enabled(c) == CanCall(Heap, c)

IsPrefix(s, t) == Len(s) <= Len(t) /\ SubSeq(t, 1, Len(s)) = s

\* the call either appended children to the tail of what the node accepted, in
\* order, or changed nothing of it; a stream event is part of no call
OrderedOrNoop(n) ==
    /\ IsPrefix(accepted[n], accepted'[n])
    /\ \A m \in Nodes : m # n => accepted'[m] = accepted[m]
    /\ \A m \in Nodes : rd'[m] = rd[m] /\ written'[m] = written[m]
    /\ \A m \in Nodes : m # n => ended'[m] = ended[m]

\* C9 as stated: addProperty, addItem and end are enabled in every reachable
\* state of every aggregate, take one step that waits for no stream event, never
\* raise, and are an ordered enqueue or a no-op.
NonBlockingOriginal ==
    [][\A c \in AggregateCalls :
          /\ Enabled(c)
          /\ Performed(c) => (~threw' /\ OrderedOrNoop(c.n))]_vars

\* C9 amended: the same, except that the inline forms raise the encoding
\* failure when JSON.stringify rejects the value.
NonBlocking ==
    [][\A c \in AggregateCalls :
          /\ Enabled(c)
          /\ Performed(c) =>
                /\ threw' => (c.op \in {"pushProperty", "pushItem"} /\ Throws(c.value))
                /\ OrderedOrNoop(c.n)]_vars

\* members were appended to an aggregate while it was piping a slot that is
\* still undecided
NonBlockingWitness ==
    \E n \in Aggregates :
        /\ current[n] # None
        /\ kind[current[n]] = "json"
        /\ ~endScheduled[current[n]]
        /\ Len(queue[n]) >= 2

\* C10: error propagation. Once the stream events are delivered, a node whose
\* current child's stream is in the error state is in the error state itself
\* (and so, level by level, is every ancestor up to the root).
ErrorPropagation ==
    \A n \in Nodes :
        (current[n] # None /\ errored[current[n]] /\ EventsIn(Heap) = {}) => errored[n]

\* C11: unterminated nodes never close. A closed channel has no aggregate
\* below it on which end() was not called; end() is never undone, so an
\* aggregate that is never ended keeps itself and all its ancestors open.
UnterminatedNeverClose ==
    /\ \A a \in Builders :
          ended[a] => \A n \in Attached(a) :
                          kind[n] \in {"object", "array"} => endScheduled[n]
    /\ \A n \in Nodes : endScheduled[n] => kind[n] # "value"

\* members were appended to an aggregate and every stream event was delivered;
\* the builder above it has its end scheduled but stays open, like the root,
\* because end() was not called on the aggregate
UnterminatedWitness ==
    \E n \in Aggregates :
        /\ n \in Attached(Root)
        /\ ~endScheduled[n]
        /\ Len(accepted[n]) >= 2
        /\ EventsIn(Heap) = {}
        /\ Carries(Root, accepted[n][2])
        /\ \E a \in Builders :
              /\ n \in Attached(a) /\ a # n
              /\ endScheduled[a] /\ ~ended[a]
        /\ ~ended[Root]

\* ------------------------------------------------ building a value by parts
ArrObj == [type |-> "array", items |-> <<ObjA, Num1>>]
ObjArr == [type |-> "object", props |-> << <<KeyA, Arr1>> >>]
RoundTripValues == {Num1, Arr1, ObjA, ObjQ, ArrObj, ObjArr}

\* walkAndRecreateUsingBuilder(value, g, builder): the heaps the walk can leave,
\* one for every way g can choose between the inline form and a child builder
RECURSIVE Walks(_, _, _)
RECURSIVE WalkItems(_, _, _)
RECURSIVE WalkProps(_, _, _)
Walks(h, n, v) ==
    CASE v.type = "array" ->
            {DoAggregateEnd(g, Last(h) + 1) :
                g \in WalkItems({DoJsonOpen(h, n, "array")}, Last(h) + 1, v.items)}
      [] v.type = "object" ->
            {DoAggregateEnd(g, Last(h) + 1) :
                g \in WalkProps({DoJsonOpen(h, n, "object")}, Last(h) + 1, v.props)}
      [] OTHER -> {DoPrimitive(h, n, v)}

WalkItems(hs, a, items) ==
    IF items = <<>> THEN hs
    ELSE WalkItems(
            {DoPushItem(g, a, Head(items)) : g \in hs}
            \cup UNION {Walks(DoAddItemOpen(g, a), Last(g) + 1, Head(items)) : g \in hs},
            a, Tail(items))

WalkProps(hs, o, props) ==
    IF props = <<>> THEN hs
    ELSE WalkProps(
            {DoPushProperty(g, o, Head(props)[1], Head(props)[2]) : g \in hs}
            \cup UNION {Walks(DoAddPropertyOpen(g, o, Head(props)[1]), Last(g) + 1,
                              Head(props)[2]) : g \in hs},
            o, Tail(props))

\* the heap once every pending stream event was delivered
RECURSIVE Settle(_)
Settle(h) ==
    IF EventsIn(h) = {} THEN h
    ELSE Settle(Deliver(h, CHOOSE e \in EventsIn(h) : TRUE))

\* toJson(builder.asStream()): the collected text once the stream has ended
Collected(h, n) ==
    LET g == Settle(h)
    IN  [closed |-> g.ended[n], text |-> JoinIn(g, g.written[n])]

\* the builders on which nothing was decided yet
Undecided == {n \in Nodes : kind[n] = "json" /\ ~endScheduled[n]}

\* C12: round-trip under decomposition. Whatever was built so far, building a
\* value into an undecided builder member by member, with any choice between
\* inline members and nested builders, lets the root collect the same text (and
\* close in the same cases) as the one-shot object(data) / array(data) /
\* primitive(data) call for that value.
DecompositionRoundTrip ==
    \A n \in Undecided : \A v \in RoundTripValues : \A g \in Walks(Heap, n, v) :
        Collected(g, Root) = Collected(JsonValue(Heap, n, v), Root)

\* the one-shot calls primitive(data) / object(data) / array(data) on the root
OneShotCalls ==
    {c \in CallsOn(Heap, Root) :
        c.op \in {"primitive", "objectData", "arrayData"} /\ ~Raises(c)}

\* the root was built by one one-shot call
OneShotBuilt ==
    /\ Len(accepted[Root]) = 1
    /\ kind[accepted[Root][1]] = "value"

\* C13: one-shot round-trip. A single primitive(v) / object(v) / array(v) on the
\* fresh root queues one fragment holding JSON.stringify(v) and schedules the
\* root's end; the root then closes, having emitted that fragment alone, and
\* parsing the collected text yields v.
OneShotRoundTrip ==
    /\ [][\A c \in OneShotCalls :
            (~endScheduled[Root] /\ Performed(c)) =>
                /\ endScheduled'[Root]
                /\ Len(accepted'[Root]) = 1
                /\ kind'[accepted'[Root][1]] = "value"
                /\ payload'[accepted'[Root][1]] = Stringify(c.value)]_vars
    /\ [](OneShotBuilt /\ ended[Root] =>
            /\ written[Root] = accepted[Root]
            /\ \A v \in Primitives \cup ObjectDatas \cup ArrayDatas :
                  (~Throws(v) /\ payload[accepted[Root][1]] = Stringify(v)) =>
                      JsonParse(Text(Root)) = v)
    /\ OneShotBuilt ~> ended[Root]

\* the root closed on the text of an object passed to object(data)
OneShotWitness ==
    /\ OneShotBuilt
    /\ ended[Root]
    /\ Text(Root) = Stringify(ObjQ)
    /\ JsonParse(Text(Root)) = ObjQ

EndOf(n) ==
    CallOf(IF kind[n] = "object" THEN "objectEnd" ELSE "arrayEnd", n, NoKey, NoValue)

InlineOn(n) ==
    IF kind[n] = "object" THEN CallOf("pushProperty", n, KeyA, Num1)
    ELSE CallOf("pushItem", n, NoKey, Num1)

\* C14: return context of end(). For an aggregate n opened through the dispatch
\* builder s, end() returns the parent of s: the aggregate that owns the slot
\* (never s itself), or nothing when s is the root; an inline append chained
\* after end() lands in that aggregate's queue and not in the slot's.
EndReturnsParent ==
    \A s \in Nodes : \A n \in Aggregates :
        (kind[s] = "json" /\ accepted[s] = <<n>>) =>
            LET r == Returns(Heap, EndOf(n))
            IN  /\ r = parent[s]
                /\ r # s
                /\ s = Root <=> r = None
                /\ r # None =>
                      /\ r \in Aggregates
                      /\ LET g == Apply(Apply(Heap, EndOf(n)), InlineOn(r))
                         IN  /\ g.accepted[s] = accepted[s]
                             /\ ~endScheduled[r] =>
                                   /\ Len(g.accepted[r]) > Len(accepted[r])
                                   /\ IsPrefix(accepted[r], g.accepted[r])

\* end() was called on an array built in a slot of an array, and the outer
\* array took its closing delimiter right after the slot
EndReturnsParentWitness ==
    \E s \in Nodes : \E n \in Aggregates :
        /\ kind[s] = "json" /\ accepted[s] = <<n>>
        /\ endScheduled[n]
        /\ parent[s] # None
        /\ \E i \in 1..(Len(accepted[parent[s]]) - 1) :
              /\ accepted[parent[s]][i] = s
              /\ payload[accepted[parent[s]][i + 1]] = <<"]">>

\* the one-shot decisions primitive(value) / object(data) / array(data) a caller
\* can make with a value that serializes
DecisionCalls ==
    {c \in UNION {CallsOn(Heap, n) : n \in Undecided} :
        c.op \in {"primitive", "objectData", "arrayData"} /\ ~Raises(c)}

\* the call queued exactly one ready fragment on the builder and requested the
\* builder's own end
OneReadyFragment(n) ==
    /\ accepted[n] = <<>>
    /\ Len(accepted'[n]) = 1
    /\ kind'[accepted'[n][1]] = "value"
    /\ ended'[accepted'[n][1]]
    /\ written'[accepted'[n][1]] = accepted'[n]
    /\ endScheduled'[n]

ItemsOneByOne(h, n, items) ==
    CASE Len(items) = 0 -> h
      [] Len(items) = 1 -> DoPushItem(h, n, items[1])
      [] Len(items) = 2 -> DoPushItem(DoPushItem(h, n, items[1]), n, items[2])

PropertiesOneByOne(h, n, props) ==
    CASE Len(props) = 0 -> h
      [] Len(props) = 1 -> DoPushProperty(h, n, props[1][1], props[1][2])
      [] Len(props) = 2 ->
            DoPushProperty(DoPushProperty(h, n, props[1][1], props[1][2]), n,
                           props[2][1], props[2][2])

\* the texts of the fragments a node accepted, in push order
Payloads(n) == [i \in 1..Len(accepted[n]) |-> payload[accepted[n][i]]]

EncodingFailureNoTrace ==
    [][\A c \in CallsIn(Heap) :
          (Raises(c) /\ Performed(c)) => (threw' /\ Heap' = Heap)]_vars

\* what a queued child is to the document: a slot, or the text of a fragment
UnitOf(h, id) == IF h.kind[id] = "json" THEN <<"slot", id>> ELSE h.payload[id]

\* the children one call on an aggregate queues, in order: the separator when a
\* member was inserted before, the key prefix, and the member
UnitsOf(c) ==
    LET sep == IF firstInserted[c.n] THEN << <<",">> >> ELSE <<>>
        slot == << <<"slot", Returns(Heap, c)>> >>
    IN  CASE endScheduled[c.n] -> <<>>
          [] c.op = "addProperty" -> sep \o << <<KeyTemplate(c.key)>> >> \o slot
          [] c.op = "addItem" -> sep \o slot
          [] c.op = "pushProperty" ->
                sep \o (IF Throws(c.value) THEN <<>>
                        ELSE << <<KeyTemplate(c.key)>> \o Stringify(c.value) >>)
          [] c.op = "pushItem" ->
                sep \o (IF Throws(c.value) THEN <<>> ELSE <<Stringify(c.value)>>)
          [] c.op = "objectEnd" -> << <<"}">> >>
          [] c.op = "arrayEnd" -> << <<"]">> >>

\* the children queued by the step on node n
Appended(n) == SubSeq(accepted'[n], Len(accepted[n]) + 1, Len(accepted'[n]))

\* C18: atomic appends. Calls on one aggregate, made by any callers in any
\* interleaving, each queue their children as one contiguous unit: the step
\* appends the separator, the key prefix and the member of that call, all
\* created by that call, next to each other at the tail; and no step ever
\* inserts anything before the tail, so nothing lands between them later.
AtomicAppends ==
    [][/\ \A n \in Nodes : IsPrefix(accepted[n], accepted'[n])
       /\ \A c \in AggregateCalls :
             Performed(c) =>
                 /\ \A i \in 1..Len(Appended(c.n)) : Appended(c.n)[i] > Last(Heap)
                 /\ [i \in 1..Len(Appended(c.n)) |-> UnitOf(Heap', Appended(c.n)[i])]
                       = UnitsOf(c)]_vars

\* two addItem() calls on one array: each slot sits right after its separator
AtomicAppendsWitness ==
    \E n \in Aggregates :
        /\ Len(accepted[n]) = 4
        /\ kind[accepted[n][2]] = "json"
        /\ payload[accepted[n][3]] = <<",">>
        /\ kind[accepted[n][4]] = "json"

\* the root's aggregate n was opened and ended with nothing in between
EmptyAggregate(n) ==
    /\ accepted[Root] = <<n>>
    /\ kind[n] \in {"object", "array"}
    /\ endScheduled[n]
    /\ Len(accepted[n]) <= 2

\* C19: empty aggregates. object() / array() on the root followed by end() with
\* no member in between queues the two delimiters and nothing else; the root
\* then closes, and its text is exactly '{}' / '[]'.
EmptyAggregates ==
    /\ [](\A n \in Nodes : EmptyAggregate(n) =>
             /\ Payloads(n) = IF kind[n] = "object" THEN << <<"{">>, <<"}">> >>
                              ELSE << <<"[">>, <<"]">> >>
             /\ ended[Root] => Raw(Text(Root)) = IF kind[n] = "object" THEN "{}" ELSE "[]")
    /\ (\E n \in Nodes : EmptyAggregate(n)) ~> ended[Root]

\* the root closed on an empty object
EmptyAggregatesWitness ==
    /\ ended[Root]
    /\ \E n \in Nodes : EmptyAggregate(n) /\ kind[n] = "object"
    /\ Raw(Text(Root)) = "{}"

\* the children of n whose stream was read in part or is being piped
Active(n) ==
    {i \in 1..Len(accepted[n]) :
        \/ accepted[n][i] = current[n]
        \/ /\ rd[accepted[n][i]] > 0
           /\ ~(ended[accepted[n][i]]
                /\ rd[accepted[n][i]] = Len(written[accepted[n][i]]))}

\* C20: single active child and lazy reading. Each node has at most one child
\* being read, its current child; a queued child was not read at all; a chunk
\* enters a node's stream only from its current child; and the current child is
\* replaced only once its stream has ended and was read to the end.
SingleActiveChild ==
    /\ [](\A n \in Builders :
             /\ Cardinality(Active(n)) <= 1
             /\ \A i \in Active(n) : accepted[n][i] = current[n]
             /\ \A i \in 1..Len(queue[n]) :
                   rd[queue[n][i]] = 0 /\ queue[n][i] # current[n])
    /\ [][\A n \in Builders :
             /\ written'[n] # written[n] =>
                   /\ current[n] # None /\ current'[n] = current[n]
                   /\ rd'[current[n]] = rd[current[n]] + 1
                   /\ written'[n] =
                         Append(written[n], written[current[n]][rd[current[n]] + 1])
             /\ (current[n] # None /\ current'[n] # current[n]) =>
                   /\ ended[current[n]]
                   /\ rd[current[n]] = Len(written[current[n]])]_vars

\* every event was delivered and a node is still piping an open slot, while a
\* fragment that is ready sits unread in its queue
SingleActiveChildWitness ==
    \E n \in Builders :
        /\ current[n] # None
        /\ ~ended[current[n]]
        /\ queue[n] # <<>>
        /\ written[Head(queue[n])] # <<>>
        /\ rd[Head(queue[n])] = 0
        /\ EventsIn(Heap) = {}

\* the closing delimiter end() queued on aggregate n
Closing(n) == accepted[n][Len(accepted[n])]

\* C21: deferred finalization. For an aggregate on which end() was called, the
\* closing delimiter is the last child it accepted; the delimiter is on the
\* aggregate's channel, and the channel is closed, only when every member
\* before it has closed; and the closed channel carries every member in full,
\* at its push position, before the delimiter, also when the member was
\* populated after end().
DeferredFinalization ==
    \A n \in Aggregates :
        endScheduled[n] =>
            /\ payload[Closing(n)] = <<IF kind[n] = "object" THEN "}" ELSE "]">>
            /\ (Carries(n, Closing(n)) \/ ended[n]) =>
                  \A i \in 1..(Len(accepted[n]) - 1) :
                      /\ ended[accepted[n][i]]
                      /\ rd[accepted[n][i]] = Len(written[accepted[n][i]])
            /\ ended[n] =>
                  /\ written[n] = Frags(n)
                  /\ written[n][Len(written[n])] = Closing(n)
                  /\ Occurrences(written[n], Closing(n)) = 1

\* an aggregate closed with the content of a slot that was decided after end()
DeferredFinalizationWitness ==
    \E n \in Aggregates : \E i \in 1..Len(accepted[n]) :
        /\ ended[n]
        /\ kind[accepted[n][i]] = "json"
        /\ accepted[accepted[n][i]] # <<>>
        /\ accepted[accepted[n][i]][1] > Closing(n)
        /\ Carries(n, accepted[accepted[n][i]][1])

Idempotence ==
    \A n \in Builders :
        LET inScheduleEnd == [Heap EXCEPT !.endScheduled[n] = TRUE]
            inEndCallback == [Heap EXCEPT !.current[n] = None]
            Twice(h) == ConsumeChildBuilder(ConsumeChildBuilder(h, n), n)
        IN  /\ Twice(Heap) = ConsumeChildBuilder(Heap, n)
            /\ Twice(inScheduleEnd) = ConsumeChildBuilder(inScheduleEnd, n)
            /\ CanChildEnd(Heap, n) =>
                  Twice(inEndCallback) = ConsumeChildBuilder(inEndCallback, n)
            /\ ScheduleEnd(ScheduleEnd(Heap, n), n) = ScheduleEnd(Heap, n)
            /\ endScheduled[n] => ScheduleEnd(Heap, n) = Heap

\* the current child of a builder has ended with another child waiting in the
\* queue (the consumption step is about to start it), and some builder has
\* closed (a repeated end request meets a closed channel)
IdempotenceWitness ==
    /\ \E n \in Builders : CanChildEnd(Heap, n) /\ Len(queue[n]) >= 2
    /\ \E m \in Builders : ended[m]

\* what a child pushed on an aggregate is: a ',' fragment, a delimiter, the key
\* prefix of a slot, or a member (a slot, or the fragment of an inline value)
IsSeparator(f) == kind[f] = "value" /\ payload[f] = <<",">>
IsDelimiter(f) ==
    kind[f] = "value" /\ payload[f] \in {<<"{">>, <<"}">>, <<"[">>, <<"]">>}
IsKeyPrefix(f) == kind[f] = "value" /\ \E k \in Keys : payload[f] = <<KeyTemplate(k)>>
IsMemberAt(n, i) ==
    LET f == accepted[n][i]
    IN  ~IsSeparator(f) /\ ~IsDelimiter(f) /\ ~IsKeyPrefix(f)
SeparatorsOf(n) == {i \in 1..Len(accepted[n]) : IsSeparator(accepted[n][i])}
MembersOf(n) == {i \in 1..Len(accepted[n]) : IsMemberAt(n, i)}

\* where the children of the member at i start: at the key prefix of a slot of
\* an object, at the member itself otherwise
UnitStart(n, i) ==
    IF kind[n] = "object" /\ kind[accepted[n][i]] = "json" THEN i - 1 ELSE i

\* C24: separator rule. An aggregate has queued max(0, members - 1) ','
\* fragments; its first member follows the opening delimiter with no separator,
\* every later member follows exactly one separator that follows the member
\* before it; in an object a slot directly follows its key prefix and an inline
\* member starts with its key.
SeparatorRule ==
    \A n \in Aggregates :
        /\ Cardinality(SeparatorsOf(n)) =
              IF MembersOf(n) = {} THEN 0 ELSE Cardinality(MembersOf(n)) - 1
        /\ \A i \in MembersOf(n) :
              LET s == UnitStart(n, i)
              IN  /\ s >= 2
                  /\ kind[n] = "object" =>
                        IF kind[accepted[n][i]] = "json"
                        THEN IsKeyPrefix(accepted[n][s])
                        ELSE \E k \in Keys :
                                Head(payload[accepted[n][i]]) = KeyTemplate(k)
                  /\ IF \A j \in MembersOf(n) : j >= i
                     THEN s = 2
                     ELSE /\ s >= 4
                          /\ IsSeparator(accepted[n][s - 1])
                          /\ IsMemberAt(n, s - 2)

\* object() / array() without data on a builder that took no decision
OpenCalls ==
    {c \in UNION {CallsOn(Heap, n) : n \in Undecided} : c.op \in {"object", "array"}}

\* builder d of the next state has one child, an aggregate
OpenedNext(d) ==
    /\ kind'[d] = "json"
    /\ Len(accepted'[d]) = 1
    /\ kind'[accepted'[d][1]] \in {"object", "array"}

\* C25: open-ended decision. object() / array() without data on an undecided
\* builder queues exactly one child, the aggregate the call constructs and
\* returns, and schedules the builder's end in the same call, leaving its stream
\* open; from then on the builder's stream carries a prefix of what the
\* aggregate's stream carries, ends only after the aggregate's stream has ended,
\* and then holds exactly the aggregate's output.
OpenEndedDecision ==
    [][/\ \A c \in OpenCalls :
             Performed(c) =>
                 LET a == Last(Heap) + 1
                 IN  /\ accepted'[c.n] = <<a>>
                     /\ Returns(Heap, c) = a
                     /\ kind'[a] = c.op
                     /\ ~endScheduled'[a]
                     /\ endScheduled'[c.n]
                     /\ ~ended'[c.n]
       /\ \A d \in 1..Len(kind') :
             OpenedNext(d) =>
                 LET a == accepted'[d][1]
                 IN  /\ IsPrefix(written'[d], written'[a])
                     /\ ended'[d] => (ended'[a] /\ written'[d] = written'[a])]_vars

\* a builder was decided by array() or object(), the aggregate it opened got a
\* member and ended, and the builder's stream has ended with the whole text
OpenEndedDecisionWitness ==
    \E d \in Nodes :
        /\ kind[d] = "json"
        /\ Len(accepted[d]) = 1
        /\ kind[accepted[d][1]] \in {"object", "array"}
        /\ ended[d]
        /\ Len(written[d]) >= 3

\* calls that construct a builder and find the end of their builder scheduled:
\* addProperty / addItem on an ended aggregate, object() / array() on a builder
\* that was decided or ended
StaleCalls ==
    {c \in CallsIn(Heap) :
        c.op \in {"addProperty", "addItem", "object", "array"} /\ endScheduled[c.n]}

\* node r is in no queue of the next state: no builder has accepted it
DetachedNext(r) ==
    \A m \in 1..Len(kind') : \A i \in 1..Len(accepted'[m]) : accepted'[m][i] # r

\* the nodes that are not part of the root's document
Stale == Nodes \ Attached(Root)

\* the step leaves every node of the root's document as it is
DocumentUnchanged ==
    \A m \in Attached(Root) :
        /\ queue'[m] = queue[m] /\ current'[m] = current[m]
        /\ accepted'[m] = accepted[m] /\ payload'[m] = payload[m]
        /\ written'[m] = written[m] /\ rd'[m] = rd[m]
        /\ ended'[m] = ended[m] /\ endScheduled'[m] = endScheduled[m]
        /\ firstInserted'[m] = firstInserted[m]

\* C26: stale handles cannot corrupt the document. The builder returned by a
\* call that found its builder ended (a slot from addProperty / addItem on an
\* ended aggregate, an aggregate from object() / array() on a decided builder) is
\* in no queue; and no call on a node outside the root's document, and no stream
\* event of such a node, changes the queue, the flags, the chunks or the text of
\* any node of the root's document.
StaleHandles ==
    [][/\ \A c \in StaleCalls : Performed(c) => DetachedNext(Returns(Heap, c))
       /\ \A c \in CallsIn(Heap) :
             (c.n \in Stale /\ Performed(c)) => DocumentUnchanged
       /\ \A e \in EventsIn(Heap) :
             (e.n \in Stale /\ Heap' = Deliver(Heap, e)) => DocumentUnchanged]_vars

\* a slot handed out by an ended aggregate was given a value and its stream
\* carries it, while the root's document is closed
StaleHandlesWitness ==
    \E x \in Stale :
        /\ kind[x] = "json"
        /\ parent[x] \in Aggregates /\ endScheduled[parent[x]]
        /\ written[x] # <<>>
        /\ ended[Root]

\* the step leaves node m as it is
Untouched(m) ==
    /\ kind'[m] = kind[m] /\ parent'[m] = parent[m]
    /\ queue'[m] = queue[m] /\ current'[m] = current[m]
    /\ endScheduled'[m] = endScheduled[m] /\ firstInserted'[m] = firstInserted[m]
    /\ accepted'[m] = accepted[m] /\ payload'[m] = payload[m]
    /\ written'[m] = written[m] /\ rd'[m] = rd[m]
    /\ ended'[m] = ended[m] /\ errored'[m] = errored[m]

LeafNext(v) ==
    /\ written'[v] = <<v>>
    /\ payload'[v] # <<>>
    /\ ended'[v]
    /\ rd'[v] \in {0, 1}
    /\ queue'[v] = <<>> /\ current'[v] = None /\ accepted'[v] = <<>>
    /\ ~endScheduled'[v]

\* C28: a value builder is a one-shot leaf. From its construction on its stream
\* holds exactly one chunk, its payload, and has ended; the payload never changes;
\* it never has a queued or current child. While it is the current child of a
\* builder, the one pipe step appends exactly that chunk to the parent's stream,
\* and the 'end' event that follows finds the chunk forwarded exactly once and
\* makes the head of the parent's queue the current child.
ValueLeaf ==
    [][/\ \A v \in 1..Len(kind') : kind'[v] = "value" => LeafNext(v)
       /\ \A v \in Nodes : kind[v] = "value" => payload'[v] = payload[v]
       /\ \A p \in Builders :
             (current[p] # None /\ kind[current[p]] = "value") =>
                 LET v == current[p]
                 IN  /\ (CanPipe(Heap, p) /\ Heap' = DoPipe(Heap, p)) =>
                            /\ rd[v] = 0 /\ rd'[v] = 1
                            /\ written'[p] = Append(written[p], v)
                     /\ (CanChildEnd(Heap, p) /\ Heap' = DoChildEnd(Heap, p)) =>
                            /\ rd[v] = 1
                            /\ Occurrences(written[p], v) = 1
                            /\ written'[p] = written[p]
                            /\ current'[p] =
                                  IF queue[p] = <<>> THEN None ELSE Head(queue[p])
                            /\ queue'[p] =
                                  IF queue[p] = <<>> THEN <<>> ELSE Tail(queue[p])]_vars

\* an aggregate has forwarded the chunk of its first value builder and advanced
\* to the next one, a value builder whose chunk is not forwarded yet
ValueLeafWitness ==
    \E p \in Aggregates :
        /\ Len(written[p]) >= 1
        /\ kind[written[p][1]] = "value"
        /\ current[p] # None
        /\ kind[current[p]] = "value"
        /\ rd[current[p]] = 0

\* a JsonStreamBuilder that was ended without a decision
EndedUndecided(n) == kind[n] = "json" /\ endScheduled[n] /\ accepted[n] = <<>>

\* position of child s in the push order of builder a (0 when a never took it)
PositionIn(a, s) ==
    IF \E i \in 1..Len(accepted[a]) : accepted[a][i] = s
    THEN CHOOSE i \in 1..Len(accepted[a]) : accepted[a][i] = s
    ELSE 0

\* C29: ending an undecided slot. end() on a JsonStreamBuilder that took no
\* decision sets its end flag, ends its stream with nothing on it and returns the
\* parent; every later primitive / object / array call on it raises nothing and
\* changes nothing; and when the enclosing aggregate is done with the slot, the
\* last chunk on the aggregate's stream is the key prefix, the separator or the
\* opening delimiter queued right before the slot: no value follows it.
EndUndecidedSlot ==
    [][/\ \A c \in CallsIn(Heap) :
             (c.op = "jsonEnd" /\ c.n \in Undecided /\ accepted[c.n] = <<>>
                 /\ Performed(c)) =>
                 /\ endScheduled'[c.n]
                 /\ ended'[c.n]
                 /\ written'[c.n] = <<>>
                 /\ Returns(Heap, c) = parent[c.n]
       /\ \A c \in CallsIn(Heap) :
             (EndedUndecided(c.n) /\ c.op # "jsonEnd" /\ Performed(c)) =>
                 (~threw' /\ Silent(c.n))
       /\ \A a \in Aggregates :
             (current[a] # None /\ EndedUndecided(current[a])
                 /\ CanChildEnd(Heap, a) /\ Heap' = DoChildEnd(Heap, a)) =>
                 LET i == PositionIn(a, current[a])
                     f == accepted[a][i - 1]
                 IN  /\ i >= 2
                     /\ IsKeyPrefix(f) \/ IsSeparator(f) \/ IsDelimiter(f)
                     /\ written[a] # <<>>
                     /\ written[a][Len(written[a])] = f
                     /\ written'[a] = written[a]]_vars

\* slot s of aggregate a was taken from a's queue and is not settled: no
\* decision was made on it, or the aggregate it was decided with is not ended
Blocking(a, s) ==
    /\ kind[s] = "json"
    /\ PositionIn(a, s) \in 1..(Len(accepted[a]) - Len(queue[a]))
    /\ \/ ~endScheduled[s]
       \/ /\ accepted[s] # <<>>
          /\ kind[accepted[s][1]] \in {"object", "array"}
          /\ ~endScheduled[accepted[s][1]]

\* the fragments of the children pushed on a after its child s
LaterFragments(a, s) ==
    UNION {{Frags(accepted[a][j])[k] : k \in 1..Len(Frags(accepted[a][j]))} :
              j \in (PositionIn(a, s) + 1)..Len(accepted[a])}

\* C30: head-of-line blocking. From the moment a slot of an aggregate is taken
\* from the queue, and for as long as it is undecided or the aggregate it was
\* decided with is not ended, the slot stays the current child, no fragment of
\* anything appended to the aggregate after it (separator, member or closing
\* delimiter) is on the aggregate's stream or on the root's stream, and the
\* aggregate's stream has not ended, end() or not.
HeadOfLineBlocking ==
    \A a \in Aggregates : \A s \in Nodes :
        Blocking(a, s) =>
            /\ current[a] = s
            /\ ~ended[a]
            /\ \A f \in LaterFragments(a, s) : ~Carries(a, f) /\ ~Carries(Root, f)

\* an array holds an undecided slot as its current child, an inline item was
\* appended after it, end() was called on the array, and what precedes the slot
\* has reached the root
HeadOfLineBlockingWitness ==
    \E a \in Aggregates : \E s \in Nodes :
        /\ Blocking(a, s)
        /\ ~endScheduled[s]
        /\ endScheduled[a]
        /\ \E f \in LaterFragments(a, s) :
              kind[parent[f]] = "array" /\ ~IsSeparator(f) /\ ~IsDelimiter(f)
        /\ written[Root] # <<>>

\* a JsonStreamBuilder that took its decision
Decided(d) == kind[d] = "json" /\ endScheduled[d] /\ accepted[d] # <<>>

\* node x is in no queue of heap h and is nobody's current child
DetachedIn(h, x) ==
    \A m \in 1..Last(h) :
        /\ h.current[m] # x
        /\ \A i \in 1..Len(h.accepted[m]) : h.accepted[m][i] # x

\* end() on the aggregate of class k with id x
EndCall(k, x) ==
    CallOf(IF k = "object" THEN "objectEnd" ELSE "arrayEnd", x, NoKey, NoValue)

\* the aggregates in no queue: handed out by object() / array() on a builder
\* whose end was scheduled
DetachedAggregates == {x \in Aggregates : DetachedIn(Heap, x)}

\* an inline append on r chained after call e lands at the tail of r's queue
\* when r's end is not scheduled, and nowhere otherwise; e itself leaves r's
\* queue alone
ChainedAppendLands(h, e, r) ==
    LET g == Apply(Apply(h, e), InlineOn(r))
    IN  /\ Apply(h, e).accepted[r] = accepted[r]
        /\ IsPrefix(accepted[r], g.accepted[r])
        /\ Len(g.accepted[r]) > Len(accepted[r]) <=> ~endScheduled[r]

\* C31: a detached aggregate still returns the live parent. object() / array()
\* on a decided JsonStreamBuilder d returns an aggregate that is in no queue;
\* its end() returns the parent of d, the builder the end() of the aggregate d
\* was decided with returns; and an append chained after that end() lands in
\* the queue of that parent when the parent is not ended. The same holds of
\* every aggregate that is in no queue.
DetachedReturnsParent ==
    /\ \A d \in Nodes : \A op \in {"object", "array"} :
          Decided(d) =>
              LET c == CallOf(op, d, NoKey, NoValue)
                  h == Apply(Heap, c)
                  x == Returns(Heap, c)
                  r == Returns(h, EndCall(op, x))
              IN  /\ h.kind[x] = op
                  /\ DetachedIn(h, x)
                  /\ r = parent[d]
                  /\ kind[accepted[d][1]] \in {"object", "array"} =>
                        r = Returns(Heap, EndOf(accepted[d][1]))
                  /\ r # None => ChainedAppendLands(h, EndCall(op, x), r)
    /\ \A x \in DetachedAggregates :
          LET r == Returns(Heap, EndOf(x))
          IN  /\ r = parent[x]
              /\ \E d \in Nodes : kind[d] = "json" /\ endScheduled[d] /\ parent[d] = r
              /\ r # None => ChainedAppendLands(Heap, EndOf(x), r)

\* a slot of an array was decided with array(), a second array() on the slot
\* handed out an aggregate that is in no queue, end() was called on it, and the
\* call chained after that end() queued a child on the enclosing array
DetachedReturnsParentWitness ==
    \E x \in DetachedAggregates : \E d \in Nodes :
        /\ endScheduled[x]
        /\ parent[x] \in Aggregates
        /\ Decided(d) /\ parent[d] = parent[x]
        /\ kind[accepted[d][1]] \in {"object", "array"}
        /\ accepted[d][1] < x
        /\ accepted[parent[x]][Len(accepted[parent[x]])] > x

\* the children that were taken from a queue so far: every child that is or was
\* a current child
Activated ==
    UNION {{accepted[m][i] : i \in 1..(Len(accepted[m]) - Len(queue[m]))} : m \in Nodes}

\* C32: structural invariants of the sequencer. Over every step: an end flag
\* that is set stays set; in the state reached no current child is in the queue
\* of its parent and no node is at two places of the queues, of one builder or of
\* two; and a child that becomes the current child of a builder was never taken
\* from a queue before.
SequencerStructure ==
    [][/\ \A n \in Nodes : endScheduled[n] => endScheduled'[n]
       /\ \A n \in 1..Len(kind') :
             current'[n] # None =>
                 \A i \in 1..Len(queue'[n]) : queue'[n][i] # current'[n]
       /\ LET places == UNION {{<<n, i>> : i \in 1..Len(queue'[n])} :
                                  n \in 1..Len(kind')}
          IN  \A p \in places : \A q \in places :
                  p # q => queue'[p[1]][p[2]] # queue'[q[1]][q[2]]
       /\ \A n \in 1..Len(kind') :
             LET before == IF n \in Nodes THEN current[n] ELSE None
             IN  (current'[n] # None /\ current'[n] # before) =>
                     current'[n] \notin Activated]_vars

\* the root's end is scheduled, and an aggregate that is done with a first child
\* pipes its current child while two more wait in its queue
SequencerStructureWitness ==
    /\ endScheduled[Root]
    /\ \E n \in Aggregates :
          /\ Consumed(n) >= 1
          /\ current[n] # None
          /\ Len(queue[n]) >= 2

====
